---- MODULE Spec2Model ----
(***************************************************************************)
(* The ranking-expression parser of vespalib/eval/function.cpp as a state  *)
(* machine.  A byte is a one-character string, NUL is the zero byte, a     *)
(* text (expression, identifier, string value) is a sequence of bytes and  *)
(* a formatted message is a sequence of text pieces.  The recursive        *)
(* descent is an explicit stack of frames; every action is the code of one *)
(* parser function between two of its calls to a sub-parser.               *)
(***************************************************************************)
EXTENDS Integers, Sequences, FiniteSets, TLC

VARIABLES
    args,     \* the arguments of Function::parse: params, expression, symbol_extractor
    beyond,   \* the byte stored at expression.data() + expression.size()
    ctx,      \* the ParseContext
    stack,    \* the parser's call stack (frames of the functions that wait)
    status,   \* "running", "returned" or "aborted" (an assertion failed)
    result,   \* the Function that parse_function returned
    events,   \* history: the calls of fail, restore_input_mark, the extractor, ...
    steps,    \* history: the steps taken so far
    unwrap,   \* a call of Function::unwrap: its arguments, locals and position
    mock      \* a NodeAdminMock, the thread in setState and the peeking thread

vars == <<args, beyond, ctx, stack, status, result, events, steps, unwrap, mock>>

-----------------------------------------------------------------------------
(* Bytes and character classes *)

NUL == "NUL"

LowerCase ==
    {"a","b","c","d","e","f","g","h","i","j","k","l","m",
     "n","o","p","q","r","s","t","u","v","w","x","y","z"}

UpperCase ==
    {"A","B","C","D","E","F","G","H","I","J","K","L","M",
     "N","O","P","Q","R","S","T","U","V","W","X","Y","Z"}

DigitChars == {"0","1","2","3","4","5","6","7","8","9"}

isspace(c) == c \in {" ", "\t", "\n", "\r", "\f"}

isdigit(c) == c \in DigitChars

is_ident(c, first) ==
    \/ c \in LowerCase
    \/ c \in UpperCase
    \/ c \in DigitChars
    \/ c = "_"
    \/ c = "@"
    \/ (c = "$" /\ ~first)

\* what printf's %s shows of a string's c_str(): the bytes before the first NUL
RECURSIVE CStr(_)
CStr(s) ==
    IF s = <<>> \/ Head(s) = NUL THEN <<>> ELSE <<Head(s)>> \o CStr(Tail(s))

-----------------------------------------------------------------------------
(* The text in memory *)

End == Len(args.expression)

\* the byte at _begin + i, for 0 <= i <= End; the byte at _end is not part of
\* the stringref
Mem(i) == IF i < End THEN args.expression[i + 1] ELSE beyond

-----------------------------------------------------------------------------
(* Params, ExplicitParams, ImplicitParams: the map name -> index is kept as *)
(* the sequence of names in index order (indices are handed out as size()). *)

ParamsUNDEF == -1

SymbolUNDEF == 2147483647

lookup(P, token) ==
    IF \E i \in 1..Len(P.names) : P.names[i] = token
    THEN (CHOOSE i \in 1..Len(P.names) : P.names[i] = token) - 1
    ELSE ParamsUNDEF

\* seeded fault: a name is registered again each time it is met
lookup_add_always(P, token) == [P EXCEPT !.names = Append(@, token)]

lookup_add(P, token) ==
    IF lookup(P, token) = ParamsUNDEF
    THEN [P EXCEPT !.names = Append(@, token)]
    ELSE P

NoParams == [implicit |-> TRUE, names |-> <<>>]

ImplicitParams == NoParams

RECURSIVE ExplicitParamsAdd(_, _)
ExplicitParamsAdd(P, params_in) ==
    IF params_in = <<>> THEN P
    ELSE ExplicitParamsAdd(lookup_add(P, Head(params_in)), Tail(params_in))

\* the assertion of the constructor: no name is given twice
ExplicitParamsAssert(params_in) ==
    \A i, j \in 1..Len(params_in) : params_in[i] = params_in[j] => i = j

ExplicitParams(params_in) ==
    ExplicitParamsAdd([implicit |-> FALSE, names |-> <<>>], params_in)

extract(P) == P.names

\* seeded fault: explicit parameters grow like implicit ones
resolve_adding(P, token) ==
    [id |-> lookup(lookup_add(P, token), token), params |-> lookup_add(P, token)]

\* Params::resolve: the resolved index and the Params object afterwards
resolve(P, token) ==
    IF P.implicit
    THEN [id |-> lookup(lookup_add(P, token), token), params |-> lookup_add(P, token)]
    ELSE [id |-> lookup(P, token), params |-> P]

-----------------------------------------------------------------------------
(* ResolveContext *)

ResolveContext(params, symbol_extractor) ==
    [params |-> params, symbol_extractor |-> symbol_extractor, let_names |-> <<>>]

push_let_name(rc, name) == [rc EXCEPT !.let_names = Append(@, name)]

pop_let_name(rc) ==
    [rc EXCEPT !.let_names = SubSeq(@, 1, Len(@) - 1)]

\* seeded fault: the outermost binding of the name wins
resolve_let_name_outermost(rc, name) ==
    IF \E i \in 1..Len(rc.let_names) : rc.let_names[i] = name
    THEN LET i == CHOOSE k \in 1..Len(rc.let_names) :
                      /\ rc.let_names[k] = name
                      /\ \A l \in 1..(k - 1) : rc.let_names[l] # name
         IN  -((i - 1) + 1)
    ELSE SymbolUNDEF

resolve_let_name(rc, name) ==
    IF \E i \in 1..Len(rc.let_names) : rc.let_names[i] = name
    THEN LET i == CHOOSE k \in 1..Len(rc.let_names) :
                      /\ rc.let_names[k] = name
                      /\ \A l \in (k + 1)..Len(rc.let_names) : rc.let_names[l] # name
         IN  -((i - 1) + 1)
    ELSE SymbolUNDEF

resolve_param(rc, name) ==
    LET r == resolve(rc.params, name)
    IN  [id |-> IF r.id = ParamsUNDEF THEN SymbolUNDEF ELSE r.id,
         rc |-> [rc EXCEPT !.params = r.params]]

-----------------------------------------------------------------------------
(* AST nodes (basic_nodes.h, operator_nodes.h, call_nodes.h, tensor_nodes.h) *)

Number(value) == [type |-> "Number", value |-> value]

String(str) == [type |-> "String", str |-> str]

Symbol(id) == [type |-> "Symbol", id |-> id]

Neg(child) == [type |-> "Neg", child |-> child]

Not(child) == [type |-> "Not", child |-> child]

Array(nodes) == [type |-> "Array", nodes |-> nodes]

If(cond, true_expr, false_expr, p_true) ==
    [type |-> "If", cond |-> cond, true_expr |-> true_expr,
     false_expr |-> false_expr, p_true |-> p_true]

Let(name, value, expr) ==
    [type |-> "Let", name |-> name, value |-> value, expr |-> expr]

TensorSum(child, dimension) ==
    [type |-> "TensorSum", child |-> child, dimension |-> dimension]

Error(message) == [type |-> "Error", message |-> message]

\* Operator::bind
bind(op, lhs, rhs) == [type |-> "Operator", op |-> op.op, lhs |-> lhs, rhs |-> rhs]

\* Call::bind_next
bind_next(call, node) == [call EXCEPT !.args = Append(@, node)]

Function(root, params) == [root |-> root, params |-> params]

\* an exact decimal m * 10^e, the value strtod gives a literal
Decimal(neg, mant, exp) == [neg |-> neg, mant |-> mant, exp |-> exp]

Zero == Decimal(FALSE, 0, 0)

-----------------------------------------------------------------------------
(* OperatorRepo and CallRepo: the registries the parser looks names up in.  *)

LEFT == "LEFT"

RIGHT == "RIGHT"

Operators ==
    << [op |-> "GreaterEqual", text |-> <<">", "=">>, priority |-> 10,  order |-> LEFT],
       [op |-> "Greater",      text |-> <<">">>,      priority |-> 10,  order |-> LEFT],
       [op |-> "Add",          text |-> <<"+">>,      priority |-> 101, order |-> LEFT],
       [op |-> "Mul",          text |-> <<"*">>,      priority |-> 102, order |-> LEFT],
       [op |-> "Pow",          text |-> <<"^">>,      priority |-> 103, order |-> RIGHT] >>

max_size == 2

IsPrefix(p, s) == Len(p) <= Len(s) /\ SubSeq(s, 1, Len(p)) = p

\* OperatorRepo::create: the operator with the longest spelling that starts
\* str, or none
CreateOperatorFound(str) == \E i \in 1..Len(Operators) : IsPrefix(Operators[i].text, str)

CreateOperator(str) ==
    Operators[CHOOSE i \in 1..Len(Operators) :
                 /\ IsPrefix(Operators[i].text, str)
                 /\ \A j \in 1..Len(Operators) :
                        IsPrefix(Operators[j].text, str)
                            => Len(Operators[j].text) <= Len(Operators[i].text)]

\* Operator::do_before: self is on top of the operator stack, other comes in
do_before(self, other) ==
    IF self.priority > other.priority THEN TRUE
    ELSE IF other.priority > self.priority THEN FALSE
    ELSE self.order = LEFT

Calls ==
    << [name |-> <<"s", "i", "n">>, num_params |-> 1],
       [name |-> <<"p", "o", "w">>, num_params |-> 2] >>

CreateCallFound(name) == \E i \in 1..Len(Calls) : Calls[i].name = name

CreateCall(name) ==
    LET c == Calls[CHOOSE i \in 1..Len(Calls) : Calls[i].name = name]
    IN  [type |-> "Call", name |-> c.name, num_params |-> c.num_params, args |-> <<>>]

-----------------------------------------------------------------------------
(* ParseContext: every operation takes the context m (the fields of ctx and *)
(* the history) and gives the context after it.                             *)

ParseContext(params, symbol_extractor) ==
    [pos              |-> 0,
     curr             |-> IF 0 < End THEN Mem(0) ELSE NUL,
     failure          |-> <<>>,
     expression_stack |-> <<>>,
     operator_stack   |-> <<>>,
     operator_mark    |-> 0,
     resolve_stack    |-> <<ResolveContext(params, symbol_extractor)>>]

Log(m, e) == [m EXCEPT !.events = Append(@, e)]

resolver(m) == m.resolve_stack[Len(m.resolve_stack)]

\* seeded fault: the new context starts with the let-bindings around it
push_resolve_context_inherit(m, params, symbol_extractor) ==
    [m EXCEPT !.resolve_stack =
        Append(@, [ResolveContext(params, symbol_extractor)
                      EXCEPT !.let_names = resolver(m).let_names])]

push_resolve_context(m, params, symbol_extractor) ==
    [m EXCEPT !.resolve_stack = Append(@, ResolveContext(params, symbol_extractor))]

pop_resolve_context(m) ==
    [m EXCEPT !.resolve_stack = SubSeq(@, 1, Len(@) - 1)]

\* seeded fault: the failure is latched but the current byte is left
fail_keep_curr(m, msg) ==
    LET l == Log(m, [ev |-> "fail", msg |-> msg, latched |-> m.failure,
                     curr_after |-> m.curr])
    IN  IF m.failure = <<>> THEN [l EXCEPT !.failure = msg] ELSE l

\* seeded fault: a later failure replaces the latched one
fail_overwrite(m, msg) ==
    [Log(m, [ev |-> "fail", msg |-> msg, latched |-> m.failure, curr_after |-> NUL])
        EXCEPT !.failure = msg, !.curr = NUL]

fail(m, msg) ==
    LET l == Log(m, [ev |-> "fail", msg |-> msg, latched |-> m.failure,
                     curr_after |-> IF m.failure = <<>> THEN NUL ELSE m.curr])
    IN  IF m.failure = <<>>
        THEN [l EXCEPT !.failure = msg, !.curr = NUL]
        ELSE l

failed(m) == m.failure # <<>>

next(m) ==
    IF m.curr # NUL /\ m.pos < End
    THEN [m EXCEPT !.pos = m.pos + 1, !.curr = Mem(m.pos + 1)]
    ELSE [m EXCEPT !.curr = NUL]

InputMark(pos, curr) == [pos |-> pos, curr |-> curr]

get_input_mark(m) == InputMark(m.pos, m.curr)

\* seeded fault: the latch is emptied whatever byte the mark holds
restore_input_mark_any_mark(m, mark) ==
    LET l == Log(m, [ev |-> "restore", curr |-> m.curr, mark |-> mark,
                     failure |-> m.failure,
                     failure_after |-> IF m.curr = NUL THEN <<>> ELSE m.failure])
        c == IF l.curr = NUL THEN [l EXCEPT !.failure = <<>>] ELSE l
    IN  [c EXCEPT !.pos = mark.pos, !.curr = mark.curr]

restore_input_mark(m, mark) ==
    LET l == Log(m, [ev |-> "restore", curr |-> m.curr, mark |-> mark,
                     failure |-> m.failure,
                     failure_after |-> IF m.curr = NUL /\ mark.curr # NUL
                                       THEN <<>> ELSE m.failure])
        c == IF l.curr = NUL /\ mark.curr # NUL
             THEN [l EXCEPT !.failure = <<>>]
             ELSE l
    IN  [c EXCEPT !.pos = mark.pos, !.curr = mark.curr]

get(m) == m.curr

eos(m) == m.curr = NUL

eat(m, c) ==
    IF m.curr = c
    THEN next(m)
    ELSE fail(m, <<"expected '", c, "', but got '", m.curr, "'">>)

RECURSIVE skip_spaces(_)
skip_spaces(m) ==
    IF ~eos(m) /\ isspace(m.curr) THEN skip_spaces(next(m)) ELSE m

peek(m, n) ==
    [i \in 1..n |->
        IF m.curr # NUL /\ m.pos + (i - 1) < End THEN Mem(m.pos + (i - 1)) ELSE NUL]

\* seeded fault: one byte too few is skipped
RECURSIVE skip_short(_, _)
skip_short(m, n) == IF n <= 1 THEN m ELSE skip_short(next(m), n - 1)

RECURSIVE skip(_, _)
skip(m, n) == IF n = 0 THEN m ELSE skip(next(m), n - 1)

push_let_binding(m, name) ==
    [m EXCEPT !.resolve_stack[Len(m.resolve_stack)] = push_let_name(@, name)]

pop_let_binding(m) ==
    [m EXCEPT !.resolve_stack[Len(m.resolve_stack)] = pop_let_name(@)]

resolve_let_ref(m, name) == resolve_let_name(resolver(m), name)

\* the resolved id, and the context with the name registered (implicit mode)
resolve_parameter(m, name) ==
    LET r == resolve_param(resolver(m), name)
    IN  [id |-> r.id,
         m  |-> [m EXCEPT !.resolve_stack[Len(m.resolve_stack)] = r.rc]]

num_expressions(m) == Len(m.expression_stack)

push_expression(m, node) == [m EXCEPT !.expression_stack = Append(@, node)]

\* the popped node, and the context afterwards
pop_expression(m) ==
    IF m.expression_stack = <<>>
    THEN [node |-> Number(Zero), m |-> fail(m, <<"expression stack underflow">>)]
    ELSE [node |-> m.expression_stack[Len(m.expression_stack)],
          m    |-> [m EXCEPT !.expression_stack = SubSeq(@, 1, Len(@) - 1)]]

num_operators(m) == Len(m.operator_stack)

pop_operator(m) ==
    [node |-> m.operator_stack[Len(m.operator_stack)],
     m    |-> [m EXCEPT !.operator_stack = SubSeq(@, 1, Len(@) - 1)]]

apply_operator(m) ==
    LET op  == pop_operator(m)
        rhs == pop_expression(op.m)
        lhs == pop_expression(rhs.m)
    IN  push_expression(lhs.m, bind(op.node, lhs.node, rhs.node))

\* seeded fault: operators below the mark are applied too
RECURSIVE push_operator_reduce_below_mark(_, _)
push_operator_reduce_below_mark(m, node) ==
    IF /\ Len(m.operator_stack) > 0
       /\ do_before(m.operator_stack[Len(m.operator_stack)], node)
    THEN push_operator_reduce_below_mark(apply_operator(m), node)
    ELSE m

\* seeded fault: operators of higher priority on the stack are not applied
push_operator_no_reduce(m, node) == m

RECURSIVE push_operator_reduce(_, _)
push_operator_reduce(m, node) ==
    IF /\ Len(m.operator_stack) > m.operator_mark
       /\ do_before(m.operator_stack[Len(m.operator_stack)], node)
    THEN push_operator_reduce(apply_operator(m), node)
    ELSE m

push_operator(m, node) ==
    LET r == push_operator_reduce(m, node)
    IN  [r EXCEPT !.operator_stack = Append(@, node)]

\* seeded fault: a new_pos that does not advance is accepted
extract_symbol_result_no_advance(m, new_pos, symbol_out) ==
    IF new_pos # -1 /\ new_pos >= m.pos /\ new_pos <= End
    THEN [name |-> symbol_out,
          m    |-> [m EXCEPT !.pos = new_pos,
                             !.curr = IF new_pos < End THEN Mem(new_pos) ELSE NUL]]
    ELSE [name |-> <<>>, m |-> m]

\* the result of SymbolExtractor::extract_symbol as ParseContext takes it up
extract_symbol_result(m, new_pos, symbol_out) ==
    IF new_pos # -1 /\ new_pos > m.pos /\ new_pos <= End
    THEN [name |-> symbol_out,
          m    |-> [m EXCEPT !.pos = new_pos,
                             !.curr = IF new_pos < End THEN Mem(new_pos) ELSE NUL]]
    ELSE [name |-> <<>>, m |-> m]

\* seeded fault: input left over is not noticed
get_result_no_eos(m) ==
    LET f == IF num_expressions(m) # 1 \/ num_operators(m) > 0
             THEN fail(m, <<"incomplete parse">>)
             ELSE m
        before == SubSeq(args.expression, 1, f.pos)
        after  == SubSeq(args.expression, f.pos + 1, End)
        r == IF f.failure # <<>>
             THEN [node |-> Error(<<"[">> \o CStr(before) \o <<"]...[">> \o CStr(f.failure)
                                  \o <<"]...[">> \o CStr(after) \o <<"]">>),
                   m    |-> f]
             ELSE pop_expression(f)
    IN  [node |-> r.node,
         m    |-> Log(r.m, [ev |-> "result", eos |-> eos(m),
                            num_expressions |-> num_expressions(m),
                            num_operators |-> num_operators(m),
                            failure |-> m.failure, node |-> r.node])]

get_result(m) ==
    LET f == IF ~eos(m) \/ num_expressions(m) # 1 \/ num_operators(m) > 0
             THEN fail(m, <<"incomplete parse">>)
             ELSE m
        before == SubSeq(args.expression, 1, f.pos)
        after  == SubSeq(args.expression, f.pos + 1, End)
        r == IF f.failure # <<>>
             THEN [node |-> Error(<<"[">> \o CStr(before) \o <<"]...[">> \o CStr(f.failure)
                                  \o <<"]...[">> \o CStr(after) \o <<"]">>),
                   m    |-> f]
             ELSE pop_expression(f)
    IN  [node |-> r.node,
         m    |-> Log(r.m, [ev |-> "result", eos |-> eos(m),
                            num_expressions |-> num_expressions(m),
                            num_operators |-> num_operators(m),
                            failure |-> m.failure, node |-> r.node])]

-----------------------------------------------------------------------------
(* Lexical helpers: unhex, strtod, parse_string, parse_number, get_ident    *)

DigitValue(c) ==
    CASE c = "0" -> 0 [] c = "1" -> 1 [] c = "2" -> 2 [] c = "3" -> 3 [] c = "4" -> 4
      [] c = "5" -> 5 [] c = "6" -> 6 [] c = "7" -> 7 [] c = "8" -> 8 [] c = "9" -> 9

unhex(c) ==
    IF c \in DigitChars THEN DigitValue(c)
    ELSE CASE c \in {"a", "A"} -> 10 [] c \in {"b", "B"} -> 11 [] c \in {"c", "C"} -> 12
           [] c \in {"d", "D"} -> 13 [] c \in {"e", "E"} -> 14 [] c \in {"f", "F"} -> 15
           [] OTHER -> -1

\* the byte (hex1 << 4) + hex2 stored in a char
HexByte(hex1, hex2) == "\\x" \o ToString((hex1 * 16 + hex2) % 256)

\* the number of digits of s from index i on
RECURSIVE DigitRun(_, _)
DigitRun(s, i) ==
    IF i <= Len(s) /\ isdigit(s[i]) THEN 1 + DigitRun(s, i + 1) ELSE 0

RECURSIVE DigitsValue(_)
DigitsValue(ds) ==
    IF ds = <<>> THEN 0
    ELSE 10 * DigitsValue(SubSeq(ds, 1, Len(ds) - 1)) + DigitValue(ds[Len(ds)])

RECURSIVE Normalize(_)
Normalize(d) ==
    IF d.mant = 0 THEN Decimal(d.neg, 0, 0)
    ELSE IF d.mant % 10 = 0 THEN Normalize(Decimal(d.neg, d.mant \div 10, d.exp + 1))
    ELSE d

\* strtod(s, &end) on the literals parse_number can collect: white space, a
\* sign, digits with an optional fraction, an exponent if it has a digit.
\* end is the number of bytes converted (0: no conversion)
strtod(s) ==
    LET ws    == IF s # <<>> /\ isspace(s[1]) THEN 1 ELSE 0
        sg    == IF ws < Len(s) /\ s[ws + 1] \in {"+", "-"} THEN 1 ELSE 0
        neg   == sg = 1 /\ s[ws + 1] = "-"
        b     == ws + sg
        n1    == DigitRun(s, b + 1)
        dot   == b + n1 < Len(s) /\ s[b + n1 + 1] = "."
        n2    == IF dot THEN DigitRun(s, b + n1 + 2) ELSE 0
        mend  == b + n1 + (IF dot THEN 1 + n2 ELSE 0)
        hasE  == mend < Len(s) /\ s[mend + 1] \in {"e", "E"}
        esg   == IF hasE /\ mend + 1 < Len(s) /\ s[mend + 2] \in {"+", "-"} THEN 1 ELSE 0
        eneg  == esg = 1 /\ s[mend + 2] = "-"
        n3    == IF hasE THEN DigitRun(s, mend + 2 + esg) ELSE 0
        ev    == DigitsValue(SubSeq(s, mend + 2 + esg, mend + 1 + esg + n3))
        mant  == DigitsValue(SubSeq(s, b + 1, b + n1) \o SubSeq(s, b + n1 + 2, b + n1 + 1 + n2))
    IN  IF n1 + n2 = 0
        THEN [end |-> 0, value |-> Zero]
        ELSE [end   |-> IF n3 > 0 THEN mend + 1 + esg + n3 ELSE mend,
              value |-> Normalize(Decimal(neg, mant,
                                          (IF n3 > 0 THEN (IF eneg THEN -ev ELSE ev) ELSE 0) - n2))]

\* one round of the loop of parse_string; st is the context and the scratch
parse_string_char(st) ==
    LET m == st.m
    IN  IF get(m) = "\\"
        THEN LET m1 == next(m)
             IN  IF get(m1) = "x"
                 THEN LET m2   == next(m1)
                          hex1 == unhex(get(m2))
                          m3   == next(m2)
                          hex2 == unhex(get(m3))
                          m4   == IF hex1 < 0 \/ hex2 < 0
                                  THEN fail(m3, <<"bad hex quote">>)
                                  ELSE m3
                      IN  [m |-> next(m4), str |-> Append(st.str, HexByte(hex1, hex2))]
                 ELSE CASE get(m1) = "\"" -> [m |-> next(m1), str |-> Append(st.str, "\"")]
                        [] get(m1) = "\\" -> [m |-> next(m1), str |-> Append(st.str, "\\")]
                        [] get(m1) = "f"  -> [m |-> next(m1), str |-> Append(st.str, "\f")]
                        [] get(m1) = "n"  -> [m |-> next(m1), str |-> Append(st.str, "\n")]
                        [] get(m1) = "r"  -> [m |-> next(m1), str |-> Append(st.str, "\r")]
                        [] get(m1) = "t"  -> [m |-> next(m1), str |-> Append(st.str, "\t")]
                        [] OTHER -> [m |-> next(fail(m1, <<"bad quote">>)), str |-> st.str]
        ELSE [m |-> next(m), str |-> Append(st.str, get(m))]

RECURSIVE parse_string_loop(_)
parse_string_loop(st) ==
    IF ~eos(st.m) /\ get(st.m) # "\""
    THEN parse_string_loop(parse_string_char(st))
    ELSE st

parse_string(m) ==
    LET st == parse_string_loop([m |-> eat(m, "\""), str |-> <<>>])
    IN  push_expression(eat(st.m, "\""), String(st.str))

\* while (ctx.get() >= '0' && ctx.get() <= '9') { str.push_back; ctx.next(); }
RECURSIVE take_digits(_)
take_digits(st) ==
    IF isdigit(get(st.m))
    THEN take_digits([m |-> next(st.m), str |-> Append(st.str, get(st.m))])
    ELSE st

\* str.push_back(ctx.get()); ctx.next();
take_char(st) == [m |-> next(st.m), str |-> Append(st.str, get(st.m))]

parse_number(m) ==
    LET s1 == take_digits(take_char([m |-> m, str |-> <<>>]))
        s2 == IF get(s1.m) = "." THEN take_digits(take_char(s1)) ELSE s1
        s3 == IF get(s2.m) \in {"e", "E"}
              THEN LET a == take_char(s2)
                   IN  take_digits(IF get(a.m) \in {"+", "-"} THEN take_char(a) ELSE a)
              ELSE s2
        conv == strtod(CStr(s3.str))
    IN  IF s3.str # <<>> /\ conv.end = Len(s3.str)
        THEN push_expression(s3.m, Number(conv.value))
        ELSE fail(s3.m, <<"invalid number: '">> \o CStr(s3.str) \o <<"'">>)

RECURSIVE get_ident_rest(_)
get_ident_rest(st) ==
    IF is_ident(get(st.m), FALSE)
    THEN get_ident_rest([m |-> next(st.m), ident |-> Append(st.ident, get(st.m))])
    ELSE st

\* the context after it, and the identifier read
get_ident(m) ==
    LET s == skip_spaces(m)
    IN  IF is_ident(get(s), TRUE)
        THEN get_ident_rest([m |-> next(s), ident |-> <<get(s)>>])
        ELSE [m |-> s, ident |-> <<>>]

RECURSIVE get_ident_list_loop(_)
get_ident_list_loop(st) ==
    IF ~eos(st.m) /\ get(st.m) # ")"
    THEN LET e == IF st.list # <<>> THEN eat(st.m, ",") ELSE st.m
             i == get_ident(e)
         IN  get_ident_list_loop([m |-> skip_spaces(i.m), list |-> Append(st.list, i.ident)])
    ELSE st

\* the context after it, and the list read
get_ident_list(m) ==
    LET o  == eat(skip_spaces(m), "(")
        st == get_ident_list_loop([m |-> skip_spaces(o), list |-> <<>>])
    IN  [m |-> eat(st.m, ")"), list |-> st.list]

-----------------------------------------------------------------------------
(* The call stack.  A frame is the function that waits and its locals; the  *)
(* top frame is the code that runs next.                                    *)

M == ctx @@ [events |-> events]

Store(m) ==
    /\ ctx' = [f \in DOMAIN ctx |-> m[f]]
    /\ events' = m.events
    /\ steps' = steps + 1
    /\ unwrap' = unwrap
    /\ mock' = mock

Top == stack[Len(stack)]

Rest == SubSeq(stack, 1, Len(stack) - 1)

Running(pc) == status = "running" /\ stack # <<>> /\ Top.pc = pc

\* the top frame is replaced by frames (none: the function returns)
Continue(m, frames) ==
    /\ Store(m)
    /\ stack' = Rest \o frames
    /\ UNCHANGED <<args, beyond, status, result>>

Call(pc) == [pc |-> pc]

NoFunction == Function([type |-> "None"], <<>>)

\* history: the names of the let bodies that are being parsed, outermost
\* first, inside the innermost lambda body that is being parsed
RECURSIVE LetScopes(_)
LetScopes(stk) ==
    IF stk = <<>> THEN <<>>
    ELSE LET f == stk[Len(stk)]
             below == LetScopes(SubSeq(stk, 1, Len(stk) - 1))
         IN  IF f.pc = "parse_lambda_body" THEN <<>>
             ELSE IF f.pc = "parse_let_expr" THEN Append(below, f.name)
             ELSE below

\* the parameter names of the lambda whose body is being parsed
RECURSIVE LambdaNames(_)
LambdaNames(stk) ==
    IF stk = <<>> THEN <<>>
    ELSE IF stk[Len(stk)].pc = "parse_lambda_body" THEN stk[Len(stk)].param_names
    ELSE LambdaNames(SubSeq(stk, 1, Len(stk) - 1))

\* the parse_lambda calls whose body is being parsed
LambdaDepth(stk) == Cardinality({i \in 1..Len(stk) : stk[i].pc = "parse_lambda_body"})

-----------------------------------------------------------------------------
(* parse_expression and parse_operator *)

parse_operator(m) ==
    LET s   == skip_spaces(m)
        str == peek(s, max_size)
    IN  IF CreateOperatorFound(str)
        THEN skip(push_operator(s, CreateOperator(str)), Len(CreateOperator(str).text))
        ELSE fail(s, <<"invalid operator: '", get(s), "'">>)

RECURSIVE apply_operators(_)
apply_operators(m) ==
    IF num_operators(m) > m.operator_mark THEN apply_operators(apply_operator(m)) ELSE m

IsTerminator(m) == eos(m) \/ get(m) = ")" \/ get(m) = "," \/ get(m) = "]"

\* parse_expression up to its first parse_value
ParseExpression ==
    /\ Running("parse_expression")
    /\ Continue([M EXCEPT !.operator_mark = num_operators(M)],
                <<[pc |-> "parse_expression_value", old_mark |-> M.operator_mark,
                   entry_operators |-> M.operator_stack],
                  Call("parse_value")>>)

\* after parse_value, at a terminator: reduce down to the mark and return
ParseExpressionReturn ==
    /\ Running("parse_expression_value")
    /\ IsTerminator(skip_spaces(M))
    /\ LET r == [apply_operators(skip_spaces(M)) EXCEPT !.operator_mark = Top.old_mark]
       IN  Continue(Log(r, [ev |-> "expression", old_mark |-> Top.old_mark,
                            entry_operators |-> Top.entry_operators,
                            operator_mark |-> r.operator_mark,
                            operators |-> r.operator_stack]),
                    <<>>)

\* after parse_value, no terminator: parse_operator and the next parse_value
ParseExpressionOperator ==
    /\ Running("parse_expression_value")
    /\ ~IsTerminator(skip_spaces(M))
    /\ Continue(parse_operator(skip_spaces(M)), <<Top, Call("parse_value")>>)

-----------------------------------------------------------------------------
(* parse_value *)

ParseValueNeg ==
    /\ Running("parse_value")
    /\ get(skip_spaces(M)) = "-"
    /\ Continue(next(skip_spaces(M)), <<Call("parse_value_neg"), Call("parse_value")>>)

ParseValueNegReturn ==
    /\ Running("parse_value_neg")
    /\ LET child == pop_expression(M)
       IN  Continue(push_expression(child.m, Neg(child.node)), <<>>)

ParseValueNot ==
    /\ Running("parse_value")
    /\ get(skip_spaces(M)) = "!"
    /\ Continue(next(skip_spaces(M)), <<Call("parse_value_not"), Call("parse_value")>>)

ParseValueNotReturn ==
    /\ Running("parse_value_not")
    /\ LET child == pop_expression(M)
       IN  Continue(push_expression(child.m, Not(child.node)), <<>>)

ParseValueSub ==
    /\ Running("parse_value")
    /\ get(skip_spaces(M)) = "("
    /\ Continue(next(skip_spaces(M)), <<Call("parse_value_sub"), Call("parse_expression")>>)

ParseValueSubReturn ==
    /\ Running("parse_value_sub")
    /\ Continue(eat(M, ")"), <<>>)

ParseValueString ==
    /\ Running("parse_value")
    /\ get(skip_spaces(M)) = "\""
    /\ Continue(parse_string(skip_spaces(M)), <<>>)

ParseValueNumber ==
    /\ Running("parse_value")
    /\ isdigit(get(skip_spaces(M)))
    /\ Continue(parse_number(skip_spaces(M)), <<>>)

\* the bytes that send parse_value to parse_symbol_or_call
IsSymbolStart(c) == c \notin {"-", "!", "(", "[", "\""} /\ ~isdigit(c)

-----------------------------------------------------------------------------
(* parse_array *)

\* the loop of parse_array from its test on: the next element, or the end
parse_array_loop(m, array, size) ==
    IF ~eos(m) /\ get(m) # "]"
    THEN [m      |-> IF size + 1 > 1 THEN eat(m, ",") ELSE m,
          frames |-> <<[pc |-> "parse_array_elem", array |-> array, size |-> size + 1],
                       Call("parse_expression")>>]
    ELSE [m |-> push_expression(eat(m, "]"), array), frames |-> <<>>]

ParseArray ==
    /\ Running("parse_value")
    /\ get(skip_spaces(M)) = "["
    /\ LET r == parse_array_loop(skip_spaces(eat(skip_spaces(M), "[")), Array(<<>>), 0)
       IN  Continue(r.m, r.frames)

ParseArrayElem ==
    /\ Running("parse_array_elem")
    /\ LET e == pop_expression(M)
           r == parse_array_loop(e.m, Array(Append(Top.array.nodes, e.node)), Top.size)
       IN  Continue(r.m, r.frames)

-----------------------------------------------------------------------------
(* parse_symbol_or_call, try_parse_call, parse_symbol *)

\* the loop of parse_call from its test on: the next argument, or the end
parse_call(m, call, i) ==
    IF i < call.num_params
    THEN [m      |-> IF i > 0 THEN eat(m, ",") ELSE m,
          frames |-> <<[pc |-> "parse_call_arg", call |-> call, i |-> i],
                       Call("parse_expression")>>]
    ELSE [m |-> push_expression(m, call), frames |-> <<>>]

\* try_parse_call up to the first sub-parser; inner is what runs before the
\* closing parenthesis is eaten, found tells whether the name is a call at all
try_parse_call(m, name) ==
    LET s == skip_spaces(m)
        e == eat(s, "(")
    IN  IF get(s) # "("
        THEN [found |-> FALSE, m |-> s, frames |-> <<>>]
        ELSE IF name = <<"i", "f">>
        THEN [found |-> TRUE, m |-> e,
              frames |-> <<Call("parse_if_cond"), Call("parse_expression")>>]
        ELSE IF name = <<"l", "e", "t">>
        THEN [found |-> TRUE, m |-> e, frames |-> <<Call("parse_let")>>]
        ELSE IF CreateCallFound(name)
        THEN [found |-> TRUE, m |-> parse_call(e, CreateCall(name), 0).m,
              frames |-> parse_call(e, CreateCall(name), 0).frames]
        ELSE IF name = <<"m", "a", "p">>
        THEN [found |-> TRUE, m |-> e,
              frames |-> <<Call("parse_tensor_map_child"), Call("parse_expression")>>]
        ELSE IF name = <<"j", "o", "i", "n">>
        THEN [found |-> TRUE, m |-> e,
              frames |-> <<Call("parse_tensor_join_lhs"), Call("parse_expression")>>]
        ELSE IF name = <<"s", "u", "m">>
        THEN [found |-> TRUE, m |-> e,
              frames |-> <<Call("parse_tensor_sum_child"), Call("parse_expression")>>]
        ELSE [found |-> FALSE,
              m |-> fail(e, <<"unknown function: '">> \o CStr(name) \o <<"'">>),
              frames |-> <<>>]

\* parse_symbol_or_call through try_parse_call
ParseSymbolOrCall ==
    /\ Running("parse_value")
    /\ IsSymbolStart(get(skip_spaces(M)))
    /\ LET before_name == get_input_mark(skip_spaces(M))
           i == get_ident(Log(skip_spaces(M),
                              [ev |-> "mark", mark |-> before_name,
                               failure |-> M.failure]))
           t == try_parse_call(i.m, i.ident)
       IN  IF t.found
           THEN Continue(t.m, <<Call("try_parse_call_return")>> \o t.frames)
           ELSE Continue(t.m, <<[pc |-> "parse_symbol", name |-> i.ident,
                                 before_name |-> before_name]>>)

\* try_parse_call after the sub-parser of the call
TryParseCallReturn ==
    /\ Running("try_parse_call_return")
    /\ Continue(eat(M, ")"), <<>>)

NULLPTR == -1

\* what a SymbolExtractor may hand back when called at pos: new_pos (left
\* null, not beyond pos, beyond end, or a position it consumed up to) and
\* symbol_out
ExtractorResults(m) ==
    {[new_pos |-> p, symbol_out |-> <<"q">>] :
        p \in {NULLPTR, m.pos, End + 1} \cup ({m.pos - 1} \cap 0..End)}
        \cup
    {[new_pos |-> p, symbol_out |-> t] :
        p \in {m.pos + 1, End} \cap ((m.pos + 1)..End),
        t \in {<<>>, SubSeq(args.expression, m.pos + 1, End)}}

\* ParseContext::extract_symbol with x the extractor's answer; the name
\* afterwards and the context
extract_symbol(m, name, before_symbol, x) ==
    IF ~resolver(m).symbol_extractor
    THEN [name |-> name, m |-> m, called |-> FALSE]
    ELSE LET r == restore_input_mark(m, before_symbol)
             e == extract_symbol_result(r, x.new_pos, x.symbol_out)
         IN  IF ~eos(r)
             THEN [name   |-> e.name,
                   m      |-> Log(e.m, [ev |-> "extract", pos |-> r.pos, curr |-> r.curr,
                                        new_pos |-> x.new_pos, name |-> e.name,
                                        pos_after |-> e.m.pos, curr_after |-> e.m.curr,
                                        failure_after |-> e.m.failure]),
                   called |-> TRUE]
             ELSE [name |-> <<>>, m |-> r, called |-> FALSE]

\* the extractor is called in this step
ExtractorCalled(m, name, before_symbol) ==
    /\ resolve_let_ref(m, name) = SymbolUNDEF
    /\ resolver(m).symbol_extractor
    /\ ~eos(restore_input_mark(m, before_symbol))

NoExtraction == [new_pos |-> NULLPTR, symbol_out |-> <<>>]

\* seeded fault: the extractor is asked before the let-bindings
parse_symbol_extract_first(m, name, before_name, x) ==
    LET e  == extract_symbol(m, name, before_name, x)
        id == resolve_let_ref(e.m, name)
        r  == resolve_parameter(e.m, e.name)
    IN  IF id # SymbolUNDEF
        THEN [id |-> id, name |-> name, m |-> e.m, called |-> e.called]
        ELSE [id |-> r.id, name |-> e.name, m |-> r.m, called |-> e.called]

\* parse_symbol: the id, the name afterwards and the context
parse_symbol(m, name, before_name, x) ==
    LET id == resolve_let_ref(m, name)
        e  == extract_symbol(m, name, before_name, x)
        r  == resolve_parameter(e.m, e.name)
    IN  IF id # SymbolUNDEF
        THEN [id |-> id, name |-> name, m |-> m, called |-> FALSE]
        ELSE [id |-> r.id, name |-> e.name, m |-> r.m, called |-> e.called]

\* parse_symbol_or_call after try_parse_call said no
ParseSymbol ==
    /\ Running("parse_symbol")
    /\ \E x \in IF ExtractorCalled(M, Top.name, Top.before_name)
                THEN ExtractorResults(restore_input_mark(M, Top.before_name))
                ELSE {NoExtraction} :
         LET p == parse_symbol(M, Top.name, Top.before_name, x)
             l == Log(p.m, [ev |-> "symbol", ident |-> Top.name, name |-> p.name,
                            id |-> p.id, called |-> p.called,
                            let_id |-> resolve_let_ref(M, Top.name),
                            param_id |-> lookup(resolver(M).params, Top.name),
                            depth |-> Len(M.resolve_stack),
                            scopes |-> LetScopes(stack),
                            lambda |-> LambdaNames(stack),
                            outer |-> SubSeq(M.resolve_stack, 1,
                                             Len(M.resolve_stack) - 1),
                            outer_after |-> SubSeq(p.m.resolve_stack, 1,
                                                   Len(p.m.resolve_stack) - 1)])
         IN  IF p.name = <<>>
             THEN Continue(fail(l, <<"missing value">>), <<>>)
             ELSE IF p.id = SymbolUNDEF
             THEN Continue(fail(l, <<"unknown symbol: '">> \o CStr(p.name) \o <<"'">>),
                           <<>>)
             ELSE Continue(push_expression(l, Symbol(p.id)), <<>>)

ParseCallArg ==
    /\ Running("parse_call_arg")
    /\ LET a == pop_expression(M)
           r == parse_call(a.m, bind_next(Top.call, a.node), Top.i + 1)
       IN  Continue(r.m, r.frames)

-----------------------------------------------------------------------------
(* parse_if *)

ParseIfCond ==
    /\ Running("parse_if_cond")
    /\ LET cond == pop_expression(M)
       IN  Continue(eat(cond.m, ","),
                    <<[pc |-> "parse_if_true", cond |-> cond.node],
                      Call("parse_expression")>>)

ParseIfTrue ==
    /\ Running("parse_if_true")
    /\ LET true_expr == pop_expression(M)
       IN  Continue(eat(true_expr.m, ","),
                    <<[pc |-> "parse_if_false", cond |-> Top.cond,
                       true_expr |-> true_expr.node],
                      Call("parse_expression")>>)

\* the optional fourth argument of if: p_true and the context after it
p_true_number(m, n) ==
    LET p_true_node == pop_expression(n)
        numeric == num_expressions(n) = num_expressions(m) + 1
    IN  [fourth |-> TRUE,
         numeric |-> numeric,
         value |-> IF numeric THEN n.expression_stack[num_expressions(n)].value
                   ELSE Zero,
         p_true |-> IF p_true_node.node.type = "Number"
                    THEN p_true_node.node.value
                    ELSE Decimal(FALSE, 5, -1),
         m |-> p_true_node.m]

parse_p_true(m) ==
    IF get(m) = ","
    THEN p_true_number(m, parse_number(eat(m, ",")))
    ELSE [fourth |-> FALSE, numeric |-> FALSE, value |-> Zero,
          p_true |-> Decimal(FALSE, 5, -1), m |-> m]

parse_if_result(top, false_node, p) ==
    push_expression(Log(p.m, [ev |-> "if", fourth |-> p.fourth,
                              numeric |-> p.numeric, value |-> p.value,
                              p_true |-> p.p_true]),
                    If(top.cond, top.true_expr, false_node, p.p_true))

ParseIfFalse ==
    /\ Running("parse_if_false")
    /\ LET false_expr == pop_expression(M)
       IN  Continue(parse_if_result(Top, false_expr.node,
                                    parse_p_true(false_expr.m)),
                    <<>>)

-----------------------------------------------------------------------------
(* parse_let *)

ParseLet ==
    /\ Running("parse_let")
    /\ LET name == get_ident(M)
       IN  Continue(eat(skip_spaces(name.m), ","),
                    <<[pc |-> "parse_let_value", name |-> name.ident,
                       let_depth |-> Len(resolver(M).let_names)],
                      Call("parse_expression")>>)

ParseLetValue ==
    /\ Running("parse_let_value")
    /\ LET value == pop_expression(M)
       IN  Continue(push_let_binding(eat(value.m, ","), Top.name),
                    <<[pc |-> "parse_let_expr", name |-> Top.name, value |-> value.node,
                       let_depth |-> Top.let_depth],
                      Call("parse_expression")>>)

ParseLetExpr ==
    /\ Running("parse_let_expr")
    /\ LET expr == pop_expression(M)
           p    == pop_let_binding(expr.m)
           l    == Log(p, [ev |-> "let", name |-> Top.name, before |-> Top.let_depth,
                           after |-> Len(resolver(p).let_names)])
       IN  Continue(push_expression(l, Let(Top.name, Top.value, expr.node)), <<>>)

-----------------------------------------------------------------------------
(* parse_lambda, parse_tensor_map, parse_tensor_join, parse_tensor_sum *)

\* parse_lambda up to the body; the assertion of ExplicitParams aborts the
\* program when a name is listed twice
ParseLambda ==
    /\ Running("parse_lambda")
    /\ LET param_names == get_ident_list(eat(skip_spaces(M), "f"))
           params == ExplicitParams(param_names.list)
           l == Log(param_names.m, [ev |-> "ExplicitParams", params_in |-> param_names.list])
           m == eat(skip_spaces(push_resolve_context(l, params, FALSE)), "(")
       IN  \/ Continue(m, <<[pc |-> "parse_lambda_body",
                              param_names |-> param_names.list,
                              resolve_stack |-> M.resolve_stack],
                             Call("parse_expression")>>)
           \/ /\ ~ExplicitParamsAssert(param_names.list)
              /\ Store(l)
              /\ status' = "aborted"
              /\ UNCHANGED <<args, beyond, stack, result>>

\* parse_lambda after the body: the Function goes to the caller's frame
ParseLambdaBody ==
    /\ Running("parse_lambda_body")
    /\ LET popped == pop_resolve_context(eat(M, ")"))
           lambda_root == pop_expression(
                              Log(popped, [ev |-> "lambda", before |-> Top.resolve_stack,
                                           after |-> popped.resolve_stack]))
       IN  /\ Store(lambda_root.m)
           /\ stack' = SubSeq(stack, 1, Len(stack) - 2)
                         \o <<[stack[Len(stack) - 1] EXCEPT
                                 !.lambda = Function(lambda_root.node, Top.param_names)]>>
           /\ UNCHANGED <<args, beyond, status, result>>

ParseTensorMapChild ==
    /\ Running("parse_tensor_map_child")
    /\ LET child == pop_expression(M)
       IN  Continue(eat(child.m, ","),
                    <<[pc |-> "parse_tensor_map_lambda", child |-> child.node,
                       lambda |-> NoFunction],
                      Call("parse_lambda")>>)

ParseTensorMapLambda ==
    /\ Running("parse_tensor_map_lambda")
    /\ IF Len(Top.lambda.params) # 1
       THEN Continue(fail(M, <<"map requires a lambda with 1 parameter, was ",
                               ToString(Len(Top.lambda.params))>>), <<>>)
       ELSE Continue(M, <<>>)

ParseTensorJoinLhs ==
    /\ Running("parse_tensor_join_lhs")
    /\ LET lhs == pop_expression(M)
       IN  Continue(eat(lhs.m, ","),
                    <<[pc |-> "parse_tensor_join_rhs", lhs |-> lhs.node],
                      Call("parse_expression")>>)

ParseTensorJoinRhs ==
    /\ Running("parse_tensor_join_rhs")
    /\ LET rhs == pop_expression(M)
       IN  Continue(eat(rhs.m, ","),
                    <<[pc |-> "parse_tensor_join_lambda", lhs |-> Top.lhs,
                       rhs |-> rhs.node, lambda |-> NoFunction],
                      Call("parse_lambda")>>)

ParseTensorJoinLambda ==
    /\ Running("parse_tensor_join_lambda")
    /\ IF Len(Top.lambda.params) # 2
       THEN Continue(fail(M, <<"join requires a lambda with 2 parameter, was ",
                               ToString(Len(Top.lambda.params))>>), <<>>)
       ELSE Continue(M, <<>>)

ParseTensorSumChild ==
    /\ Running("parse_tensor_sum_child")
    /\ LET child == pop_expression(M)
           dimension == get_ident(next(child.m))
       IN  IF get(child.m) = ","
           THEN Continue(push_expression(skip_spaces(dimension.m),
                                         TensorSum(child.node, dimension.ident)), <<>>)
           ELSE Continue(push_expression(child.m, TensorSum(child.node, <<>>)), <<>>)

-----------------------------------------------------------------------------
(* parse_function and the four entry points Function::parse *)

\* parse_function after parse_expression
ParseFunctionReturn ==
    /\ Running("parse_function")
    /\ LET r == get_result(M)
       IN  /\ Store(r.m)
           /\ result' = IF failed(M) /\ ctx.resolve_stack[1].params.implicit
                        THEN Function(r.node, <<>>)
                        ELSE Function(r.node, extract(ctx.resolve_stack[1].params))
    /\ stack' = <<>>
    /\ status' = "returned"
    /\ UNCHANGED <<args, beyond>>

-----------------------------------------------------------------------------
(* The expressions the model parses: every text of at most MaxLen bytes of  *)
(* Alphabet, and families of longer texts that reach every construct.       *)

MaxLen == 3

Alphabet == {"1", "a", "+", "*", " ", "(", ")", NUL}

RECURSIVE Texts(_)
Texts(n) ==
    IF n = 0 THEN {<<>>}
    ELSE Texts(n - 1) \cup {Append(t, c) : t \in {u \in Texts(n - 1) : Len(u) = n - 1},
                                           c \in Alphabet}

BinaryTexts == {<<"+">>, <<"*">>, <<"^">>, <<">">>, <<">", "=">>}

\* x b y a z with distinguishable operands
PrecedenceTexts ==
    {<<"1">> \o b \o <<"2">> \o a \o <<"3">> : a \in BinaryTexts, b \in BinaryTexts}

LetValueTexts == {<<"1">>, <<"x">>, <<"a">>}

LetBodyTexts ==
    { <<"x">>,
      <<"x", "*", "x">>,
      <<"a">>,
      <<"a", "+", "x">>,
      <<"l", "e", "t", "(", "x", ",", "2", ",", "x", ")">>,
      <<"l", "e", "t", "(", "y", ",", "2", ",", "x", ")">>,
      <<"l", "e", "t", "(", "y", ",", "2", ",", "y", "+", "x", ")">>,
      <<"l", "e", "t", "(", "y", ",", "x", ",", "y", ")", "+", "x">>,
      <<"(", "x", ")">>,
      <<"[", "x", "]">> }

LetTailTexts == {<<>>, <<"+", "x">>}

\* let(x,v,body) and what follows it
LetTexts ==
    {<<"l", "e", "t", "(", "x", ",">> \o v \o <<",">> \o b \o <<")">> \o t :
        v \in LetValueTexts, b \in LetBodyTexts, t \in LetTailTexts}
        \cup { <<"l", "e", "t", "(", ",", "1", ",", ")">>,
               <<"l", "e", "t", "(", "x", ",", "1">>,
               <<"l", "e", "t", "(", "x", " ", "1", ",", "x", ")">>,
               <<"l", "e", "t", "(", "x", ",", "1", ",", "x">>,
               <<"l", "e", "t", " ", "(", " ", "x", " ", ",", " ", "1", " ", ",", " ", "x", " ", ")">> }

ScenarioTexts ==
    { <<"1", "+", "2", "*", "3">>,
      <<"i", "f", "(", "a", ">", "b", ",", "1", ",", "0", ",", "0", ".", "2", "5", ")">>,
      <<"l", "e", "t", "(", "x", ",", " ", "a", "+", "1", ",", " ", "x", "*", "x", ")">>,
      <<"\"", "h", "i", "\\", "n", "\"">>,
      <<"m", "a", "p", "(", "t", ",", " ", "f", "(", "v", ")", "(", "v", "+", "1", ")", ")">>,
      <<"1", " ", "+">>,
      <<"s", "u", "m", "(", "t", ",", " ", "d", ")">>,
      <<"2", "*", "(", "3", "+", "4", ")", "*", "5">>,
      <<"2", "*", "s", "i", "n", "(", "3", "+", "4", ")">>,
      <<"2", "*", "[", "3", "+", "4", ",", "5", "]">>,
      <<"2", "^", "(", "3", "*", "(", "4", "+", ")">> }

UnaryTexts ==
    { <<"-", "a">>,
      <<"!", "a">>,
      <<"-", "-", "1">>,
      <<"!", "-", "a">>,
      <<"(", "a", ")">>,
      <<"(", "1", "+", "2", ")", "*", "3">>,
      <<"2", "^", "(", "1", "+", "a", ")">>,
      <<"(", "1">>,
      <<"-">>,
      <<"(", "(", "a", ")", ")">> }

ArrayTexts ==
    { <<"[", "]">>,
      <<"[", "1", "]">>,
      <<"[", "1", ",", "a", "]">>,
      <<"[", " ", "1", " ", ",", " ", "a", " ", "]">>,
      <<"[", "1", " ", "a", "]">>,
      <<"[", "1", ",">>,
      <<"[", "[", "1", "]", ",", "[", "]", "]">>,
      <<"[", "a", "+", "1", ",", "2", "]", "*", "3">> }

StringTexts ==
    { <<"\"", "a", "b", "\"">>,
      <<"\"", "\\", "x", "4", "1", "\"">>,
      <<"\"", "\\", "x", "g", "1", "\"">>,
      <<"\"", "\\", "q", "\"">>,
      <<"\"", "a", "b">>,
      <<"\"", "a", "\\", "\"", "b", "\"">>,
      <<"\"", "\\", "t", "\\", "r", "\\", "f", "\\", "\\", "\"">>,
      <<"\"", "a", "\"", "+", "1">> }

NumberTexts ==
    { <<"1", "2">>,
      <<"1", ".", "5">>,
      <<"1", ".">>,
      <<"1", "e", "3">>,
      <<"1", "e">>,
      <<"1", "e", "+">>,
      <<"2", "E", "-", "1">>,
      <<"1", ".", "5", ".", "2">>,
      <<"1", "a">>,
      <<"1", "0", "*", "0", ".", "5">> }

CallTexts ==
    { <<"s", "i", "n", "(", "a", ")">>,
      <<"p", "o", "w", "(", "a", ",", "1", ")">>,
      <<"p", "o", "w", "(", "a", ")">>,
      <<"s", "i", "n", "(", "a", ",", "b", ")">>,
      <<"s", "i", "n", "(", "a", ")", "+", "1">>,
      <<"f", "o", "o", "(", "a", ")">>,
      <<"f", "o", "o", "(", "a", ")", "+", "1">>,
      <<"s", "i", "n", " ", "(", "a", ")">>,
      <<"p", "o", "w", "(", "s", "i", "n", "(", "a", ")", ",", "b", ")">>,
      <<"s", "i", "n", "(">> }

IfTexts ==
    { <<"i", "f", "(", "a", ",", "1", ",", "0", ")">>,
      <<"i", "f", "(", "a", ",", "1", ",", "0", ",", "1", ")">>,
      <<"i", "f", "(", "a", ",", "1", ",", "0", ",", "x", ")">>,
      <<"i", "f", "(", "a", ",", "1", ",", "0", ",", " ", "1", ")">>,
      <<"i", "f", "(", "a", ",", "1", ",", "0", ",", "-", "1", ")">>,
      <<"i", "f", "(", "a", ",", "1", ",", "0", ",", ".", "5", ")">>,
      <<"i", "f", "(", "a", ",", "1", ",", "0", ",", "1", "e", ")">>,
      <<"1", "+", "i", "f", "(", "a", ",", "1", ",", "0", ",", "x", ")">>,
      <<"i", "f", "(", "a", ",", "1", ")">>,
      <<"i", "f", "(", "a", ">", "b", ",", "i", "f", "(", "b", ",", "1", ",", "2", ")", ",", "0", ")">>,
      <<"i", "f", "(", "a", ",", "1", ",", "0", ",", "2", ".", "5", "0", ")">> }

TensorTexts ==
    { <<"m", "a", "p", "(", "t", ",", "f", "(", "v", ")", "(", "v", "+", "1", ")", ")">>,
      <<"m", "a", "p", "(", "t", ",", "f", "(", ")", "(", "1", ")", ")">>,
      <<"m", "a", "p", "(", "t", ",", "f", "(", "a", ",", "b", ")", "(", "a", ")", ")">>,
      <<"m", "a", "p", "(", "t", ",", "f", "(", "a", ",", "a", ")", "(", "a", ")", ")">>,
      <<"m", "a", "p", "(", "t", ",", "f", "(", "v", ")", "(", "t", ")", ")">>,
      <<"m", "a", "p", "(", "t", ",", "f", "(", "+">>,
      <<"m", "a", "p", "(", "t", ",", "g", "(", "v", ")", "(", "v", ")", ")">>,
      <<"j", "o", "i", "n", "(", "a", ",", "b", ",", "f", "(", "x", ",", "y", ")", "(", "x", "+", "y", ")", ")">>,
      <<"j", "o", "i", "n", "(", "a", ",", "b", ",", "f", "(", "x", ")", "(", "x", ")", ")">>,
      <<"j", "o", "i", "n", "(", "a", ",", "b", ",", "f", "(", "x", ",", "y", ")", "(", "a", ")", ")">>,
      <<"s", "u", "m", "(", "t", ")">>,
      <<"s", "u", "m", "(", "t", ",", "d", ")">>,
      <<"s", "u", "m", "(", "t", ",", ")">>,
      <<"s", "u", "m", "(", "t", ")", "+", "1">>,
      <<"m", "a", "p", "(", "t", ",", "f", "(", "v", ")", "(", "l", "e", "t", "(", "y", ",", "v", ",", "y", "+", "v", ")", ")", ")">>,
      <<"l", "e", "t", "(", "x", ",", "1", ",", "m", "a", "p", "(", "t", ",", "f", "(", "v", ")", "(", "x", ")", ")", ")">>,
      <<"l", "e", "t", "(", "x", ",", "1", ",", "m", "a", "p", "(", "t", ",", "f", "(", "x", ")", "(", "x", ")", ")", ")">>,
      <<"1", "+", "m", "a", "p", "(", "t", ",", "f", "(", "v", ")", "(", "v", ")", ")">>,
      <<"[", "m", "a", "p", "(", "t", ",", "f", "(", "v", ")", "(", "v", ")", ")", "]">>,
      <<"m", "a", "p", "(", "t", " ", ",", " ", "f", " ", "(", " ", "v", " ", ")", " ", "(", " ", "v", " ", ")", ")">>,
      <<"m", "a", "p", "(", "a", ",", "f", "(", "b", ")", "(", "b", ")", ")", "+", "b", "+", "a">>,
      <<"m", "a", "p", "(", "t", ",", "f", "(", "v", ")", "(", "m", "a", "p", "(", "v", ",", "f", "(", "w", ",", "v", ")", "(", "v", "+", "w", ")", ")", ")", ")">> }

ExtractorTexts ==
    { <<"a", ".", "b">>,
      <<"a", ".", "b", "+", "c">>,
      <<"t", "+", "a", ".", "b">>,
      <<"l", "e", "t", "(", "x", ",", "1", ",", "x", "+", "y", ".", "z", ")">>,
      <<".", "a">>,
      <<"f", "o", "o", "(", "a", ")", ".", "b">>,
      <<"a", " ", "b">> }

Expressions ==
    Texts(MaxLen) \cup ScenarioTexts \cup PrecedenceTexts \cup LetTexts \cup UnaryTexts
        \cup ArrayTexts \cup StringTexts \cup NumberTexts \cup CallTexts \cup IfTexts
        \cup TensorTexts \cup ExtractorTexts

\* the parameter lists of the explicit entry points (no name twice)
ParamLists == {<< <<"t">> >>, << <<"b">>, <<"a">> >>}

\* the calls of Function::parse: with or without params, with or without a
\* symbol extractor
Arguments ==
    {[implicit |-> TRUE, params |-> <<>>, expression |-> e, symbol_extractor |-> x] :
        e \in Expressions, x \in BOOLEAN}
        \cup
    {[implicit |-> FALSE, params |-> p, expression |-> e, symbol_extractor |-> x] :
        p \in ParamLists, e \in Expressions, x \in BOOLEAN}

\* a new NodeAdminMock: the HashSet hostnames and the monitor, with the
\* position of the thread in setState (its argument and loop index) and of
\* the peeking thread; results and visible, read and observed are history
NodeAdminMock ==
    [hostnames |-> {}, monitor |-> "free",
     setter |-> "idle", containersToRun |-> <<>>, i |-> 1, calls |-> 0,
     peeker |-> "idle", peeks |-> 0, reads |-> 0,
     results |-> {{}}, visible |-> {}, read |-> FALSE, observed |-> {}]

\* no call of Function::unwrap
NoUnwrap ==
    [pc |-> "none", input |-> <<>>, pos |-> 0, wrapper_begin |-> 0, wrapper_end |-> 0,
     body_begin |-> 0, body_end |-> 0, wrapper |-> <<>>, body |-> <<>>, error |-> <<>>,
     old |-> <<>>, ret |-> FALSE]

\* the byte behind the text: the terminator of a C string, or whatever the
\* buffer of a stringref holds there
BeyondBytes == {NUL, "1"}

Init ==
    /\ args \in Arguments
    /\ beyond \in BeyondBytes
    /\ ctx = ParseContext(IF args.implicit THEN ImplicitParams
                                           ELSE ExplicitParams(args.params),
                          args.symbol_extractor)
    /\ stack = <<Call("parse_function"), Call("parse_expression")>>
    /\ status = "running"
    /\ result = NoFunction
    /\ events = <<>>
    /\ steps = 0
    /\ unwrap = NoUnwrap
    /\ mock = NodeAdminMock

Next ==
    \/ ParseExpression
    \/ ParseExpressionReturn
    \/ ParseExpressionOperator
    \/ ParseValueNeg
    \/ ParseValueNegReturn
    \/ ParseValueNot
    \/ ParseValueNotReturn
    \/ ParseValueSub
    \/ ParseValueSubReturn
    \/ ParseValueString
    \/ ParseValueNumber
    \/ ParseArray
    \/ ParseArrayElem
    \/ ParseSymbolOrCall
    \/ TryParseCallReturn
    \/ ParseSymbol
    \/ ParseCallArg
    \/ ParseIfCond
    \/ ParseIfTrue
    \/ ParseIfFalse
    \/ ParseLet
    \/ ParseLetValue
    \/ ParseLetExpr
    \/ ParseLambda
    \/ ParseLambdaBody
    \/ ParseTensorMapChild
    \/ ParseTensorMapLambda
    \/ ParseTensorJoinLhs
    \/ ParseTensorJoinRhs
    \/ ParseTensorJoinLambda
    \/ ParseTensorSumChild
    \/ ParseFunctionReturn

Spec == Init /\ [][Next]_vars

-----------------------------------------------------------------------------
(* Function::unwrap.  input[i] of the code is input[i + 1] here.            *)

isalpha(c) == c \in LowerCase \cup UpperCase

\* seeded fault: whitespace is not skipped
SkipNoSpace(input, pos) == pos

\* for (; pos < input.size() && isspace(input[pos]); ++pos);
RECURSIVE SkipSpace(_, _)
SkipSpace(input, pos) ==
    IF pos < Len(input) /\ isspace(input[pos + 1]) THEN SkipSpace(input, pos + 1) ELSE pos

\* for (; pos < input.size() && isalpha(input[pos]); ++pos);
RECURSIVE SkipAlpha(_, _)
SkipAlpha(input, pos) ==
    IF pos < Len(input) /\ isalpha(input[pos + 1]) THEN SkipAlpha(input, pos + 1) ELSE pos

\* for (; body_end > body_begin && isspace(input[body_end]); --body_end);
RECURSIVE TrimEnd(_, _, _)
TrimEnd(input, body_begin, body_end) ==
    IF body_end > body_begin /\ isspace(input[body_end + 1])
    THEN TrimEnd(input, body_begin, body_end - 1)
    ELSE body_end

\* seeded fault: the byte at the end is taken along
stringref_inclusive(input, begin, size) == SubSeq(input, begin + 1, begin + size + 1)

\* vespalib::stringref(input.data() + begin, size)
stringref(input, begin, size) == SubSeq(input, begin + 1, begin + size)

UnwrapReturn(u, ret) == [u EXCEPT !.pc = "returned", !.ret = ret]

\* leading whitespace and the wrapper name
UnwrapWrapperName ==
    /\ unwrap.pc = "wrapper"
    /\ LET wrapper_begin == SkipSpace(unwrap.input, 0)
           wrapper_end   == SkipAlpha(unwrap.input, wrapper_begin)
           u == [unwrap EXCEPT !.pos = wrapper_end, !.wrapper_begin = wrapper_begin,
                               !.wrapper_end = wrapper_end]
       IN  unwrap' = IF wrapper_end = wrapper_begin
                     THEN UnwrapReturn([u EXCEPT !.error =
                                           <<"could not extract wrapper name">>], FALSE)
                     ELSE [u EXCEPT !.pc = "opening"]
    /\ UNCHANGED <<args, beyond, ctx, stack, status, result, events, steps, mock>>

\* whitespace and the opening parenthesis
UnwrapOpening ==
    /\ unwrap.pc = "opening"
    /\ LET pos == SkipSpace(unwrap.input, unwrap.pos)
           u   == [unwrap EXCEPT !.pos = pos]
       IN  unwrap' = IF pos = Len(u.input) \/ u.input[pos + 1] # "("
                     THEN UnwrapReturn([u EXCEPT !.error =
                                           <<"could not match opening '('">>], FALSE)
                     ELSE [u EXCEPT !.pc = "closing", !.body_begin = pos + 1,
                                    !.body_end = Len(u.input) - 1]
    /\ UNCHANGED <<args, beyond, ctx, stack, status, result, events, steps, mock>>

\* trailing whitespace, the closing parenthesis, the assertion and the results
UnwrapClosing ==
    /\ unwrap.pc = "closing"
    /\ LET body_end == TrimEnd(unwrap.input, unwrap.body_begin, unwrap.body_end)
           u == [unwrap EXCEPT !.body_end = body_end]
       IN  unwrap' =
               IF u.input[body_end + 1] # ")"
               THEN UnwrapReturn([u EXCEPT !.error =
                                     <<"could not match closing ')'">>], FALSE)
               ELSE IF ~(body_end >= u.body_begin)
               THEN [u EXCEPT !.pc = "aborted"]
               ELSE UnwrapReturn(
                        [u EXCEPT !.wrapper = stringref(u.input, u.wrapper_begin,
                                                        u.wrapper_end - u.wrapper_begin),
                                  !.body = stringref(u.input, u.body_begin,
                                                     body_end - u.body_begin)],
                        TRUE)
    /\ UNCHANGED <<args, beyond, ctx, stack, status, result, events, steps, mock>>

\* the inputs of unwrap: every text of at most MaxInput bytes of
\* UnwrapAlphabet, and some longer ones
MaxInput == 4

UnwrapAlphabet == {"W", " ", "(", ")", "1"}

RECURSIVE UnwrapTexts(_)
UnwrapTexts(n) ==
    IF n = 0 THEN {<<>>}
    ELSE UnwrapTexts(n - 1) \cup
         {Append(t, c) : t \in {x \in UnwrapTexts(n - 1) : Len(x) = n - 1},
                         c \in UnwrapAlphabet}

UnwrapScenarios ==
    { <<"W", "(", " ", "B", "O", "D", "Y", " ", ")">>,
      <<"\n", " ", "f", "o", "o", " ", "\n", " ", "(", "b", "a", "r", ")", " ", "\n">>,
      <<"m", "a", "x", "(", "f", "(", "x", ")", "+", "(", "y", ")", ")">>,
      <<"m", "a", "x", "(", "x", ")", "y">>,
      <<"m", "a", "x", "1", "(", "x", ")">> }

UnwrapInputs == UnwrapTexts(MaxInput) \cup UnwrapScenarios

\* what the caller's wrapper, body and error strings hold before the call
UnwrapOld == {<<>>, <<"o", "l", "d">>}

UnwrapInit ==
    /\ unwrap \in {[NoUnwrap EXCEPT !.pc = "wrapper", !.input = i, !.wrapper = o,
                                    !.body = o, !.error = o, !.old = o] :
                       i \in UnwrapInputs, o \in UnwrapOld}
    /\ args = [implicit |-> TRUE, params |-> <<>>, expression |-> <<>>,
               symbol_extractor |-> FALSE]
    /\ beyond = NUL
    /\ ctx = ParseContext(ImplicitParams, FALSE)
    /\ stack = <<>>
    /\ status = "idle"
    /\ result = NoFunction
    /\ events = <<>>
    /\ steps = 0
    /\ mock = NodeAdminMock

UnwrapNext ==
    \/ UnwrapWrapperName
    \/ UnwrapOpening
    \/ UnwrapClosing

UnwrapSpec == UnwrapInit /\ [][UnwrapNext]_vars

-----------------------------------------------------------------------------
(* NodeAdminMock: one thread calls setState, a peeking thread calls         *)
(* getListOfHosts and reads the Set it was handed.  Each statement is a     *)
(* step; a step inside synchronized (monitor) needs the monitor.            *)

Hosts == {"h1", "h2"}

MaxContainers == 2
MaxSetState == 2
MaxPeeks == 2

\* the lists of at most n containers, as the lists of their hostnames
RECURSIVE ContainerLists(_)
ContainerLists(n) ==
    IF n = 0 THEN {<<>>}
    ELSE ContainerLists(n - 1) \cup
         {Append(l, h) : l \in {x \in ContainerLists(n - 1) : Len(x) = n - 1},
                         h \in Hosts}

\* a write to the HashSet: what a thread that holds a reference to it and
\* has not synchronized since may find there
HashSetWrite(mk, s) ==
    [mk EXCEPT !.hostnames = s,
               !.visible = IF mk.peeker = "holding" THEN @ \cup {s} ELSE @]

\* setState: synchronized (monitor) {
SetStateEnter ==
    /\ mock.setter = "idle"
    /\ mock.monitor = "free"
    /\ mock.calls < MaxSetState
    /\ \E containersToRun \in ContainerLists(MaxContainers) :
           mock' = [mock EXCEPT !.monitor = "setter", !.setter = "clear",
                                !.containersToRun = containersToRun, !.i = 1,
                                !.calls = @ + 1,
                                !.results = @ \cup {{containersToRun[n] :
                                                n \in 1..Len(containersToRun)}}]
    /\ UNCHANGED <<args, beyond, ctx, stack, status, result, events, steps, unwrap>>

\* hostnames.clear()
SetStateClear ==
    /\ mock.setter = "clear"
    /\ mock' = [HashSetWrite(mock, {}) EXCEPT !.setter = "forEach"]
    /\ UNCHANGED <<args, beyond, ctx, stack, status, result, events, steps, unwrap>>

\* one round of containersToRun.forEach: hostnames.add(container.hostname)
SetStateAdd ==
    /\ mock.setter = "forEach"
    /\ mock.i <= Len(mock.containersToRun)
    /\ mock' = [HashSetWrite(mock, mock.hostnames \cup {mock.containersToRun[mock.i]})
                   EXCEPT !.i = @ + 1]
    /\ UNCHANGED <<args, beyond, ctx, stack, status, result, events, steps, unwrap>>

\* the end of the synchronized block of setState
SetStateExit ==
    /\ mock.setter = "forEach"
    /\ mock.i > Len(mock.containersToRun)
    /\ mock' = [mock EXCEPT !.monitor = "free", !.setter = "idle"]
    /\ UNCHANGED <<args, beyond, ctx, stack, status, result, events, steps, unwrap>>

\* getListOfHosts: synchronized (monitor) { return hostnames; } hands out
\* the HashSet itself
GetListOfHosts ==
    /\ mock.monitor = "free"
    /\ mock.peeks < MaxPeeks
    /\ mock' = [mock EXCEPT !.peeker = "holding", !.peeks = @ + 1,
                            !.visible = {mock.hostnames}]
    /\ UNCHANGED <<args, beyond, ctx, stack, status, result, events, steps, unwrap>>

\* the peeking thread reads the Set it was handed, outside the monitor
PeekRead ==
    /\ mock.peeker = "holding"
    /\ mock.reads < MaxPeeks
    /\ \E s \in mock.visible :
           mock' = [mock EXCEPT !.reads = @ + 1, !.read = TRUE, !.observed = s]
    /\ UNCHANGED <<args, beyond, ctx, stack, status, result, events, steps, unwrap>>

NodeAdminInit ==
    /\ mock = NodeAdminMock
    /\ unwrap = NoUnwrap
    /\ args = [implicit |-> TRUE, params |-> <<>>, expression |-> <<>>,
               symbol_extractor |-> FALSE]
    /\ beyond = NUL
    /\ ctx = ParseContext(ImplicitParams, FALSE)
    /\ stack = <<>>
    /\ status = "idle"
    /\ result = NoFunction
    /\ events = <<>>
    /\ steps = 0

NodeAdminNext ==
    \/ SetStateEnter
    \/ SetStateClear
    \/ SetStateAdd
    \/ SetStateExit
    \/ GetListOfHosts
    \/ PeekRead

NodeAdminSpec == NodeAdminInit /\ [][NodeAdminNext]_vars

-----------------------------------------------------------------------------
(* Vocabulary of the properties *)

Returned == status = "returned"

\* the text is a C string: the byte behind it is the terminator
Terminated == beyond = NUL

HasError == result.root.type = "Error"

Num(n) == Number(Decimal(FALSE, n, 0))

ErrorText(prefix, msg, suffix) ==
    <<"[">> \o prefix \o <<"]...[">> \o msg \o <<"]...[">> \o suffix \o <<"]">>

IsSymbolEvent(e) == e.ev = "symbol"

SymbolEvents == SelectSeq(events, IsSymbolEvent)

\* the names of a sequence, each once, in the order of their first occurrence
RECURSIVE FirstEncounter(_)
FirstEncounter(names) ==
    IF names = <<>> THEN <<>>
    ELSE LET front == FirstEncounter(SubSeq(names, 1, Len(names) - 1))
             last  == names[Len(names)]
         IN  IF \E i \in 1..Len(front) : front[i] = last THEN front
             ELSE Append(front, last)

\* the ids of the Symbol nodes of a tree, left to right
RECURSIVE SymbolIds(_)
RECURSIVE SymbolIdsOfAll(_)
SymbolIdsOfAll(nodes) ==
    IF nodes = <<>> THEN <<>>
    ELSE SymbolIds(Head(nodes)) \o SymbolIdsOfAll(Tail(nodes))

SymbolIds(node) ==
    CASE node.type = "Symbol"    -> <<node.id>>
      [] node.type \in {"Neg", "Not", "TensorSum"} -> SymbolIds(node.child)
      [] node.type = "Array"     -> SymbolIdsOfAll(node.nodes)
      [] node.type = "Call"      -> SymbolIdsOfAll(node.args)
      [] node.type = "If"        ->
            SymbolIds(node.cond) \o SymbolIds(node.true_expr) \o SymbolIds(node.false_expr)
      [] node.type = "Let"       -> SymbolIds(node.value) \o SymbolIds(node.expr)
      [] node.type = "Operator"  -> SymbolIds(node.lhs) \o SymbolIds(node.rhs)
      [] OTHER -> <<>>

-----------------------------------------------------------------------------
(* C1: whenever a failure is latched when get_result has run, the Function  *)
(* has an Error root whose message is "[" prefix "]...[" msg "]...["        *)
(* suffix "]", prefix the text before the cursor, suffix the text from the  *)
(* cursor on, msg the latched message as printed.                           *)
C1_ErrorSurface ==
    (Returned /\ failed(ctx)) =>
        /\ HasError
        /\ result.root.message =
               ErrorText(SubSeq(args.expression, 1, ctx.pos), CStr(ctx.failure),
                         SubSeq(args.expression, ctx.pos + 1, End))
        /\ SubSeq(args.expression, 1, ctx.pos) \o SubSeq(args.expression, ctx.pos + 1, End)
               = args.expression

-----------------------------------------------------------------------------
(* C2: precedence climbing.  The C string "1 b 2 a 3" of two binary         *)
(* operators parses to b over 1 and (a over 2 and 3) when b on the stack    *)
(* does not go before a, and to a over (b over 1 and 2) and 3 when it does. *)
C2_PrecedenceClimbing ==
    \A a \in BinaryTexts, b \in BinaryTexts :
        (Returned /\ Terminated /\ args.expression = <<"1">> \o b \o <<"2">> \o a \o <<"3">>)
            => result.root =
                   IF do_before(CreateOperator(b), CreateOperator(a))
                   THEN bind(CreateOperator(a),
                             bind(CreateOperator(b), Num(1), Num(2)), Num(3))
                   ELSE bind(CreateOperator(b), Num(1),
                             bind(CreateOperator(a), Num(2), Num(3)))

\* 1+2*3 has been parsed to Add(1, Mul(2, 3))
C2_Witness ==
    /\ Returned
    /\ Terminated
    /\ args.expression = <<"1", "+", "2", "*", "3">>
    /\ result.root = bind(CreateOperator(<<"+">>), Num(1),
                          bind(CreateOperator(<<"*">>), Num(2), Num(3)))

-----------------------------------------------------------------------------
(* C3: implicit mode without an extractor, parse succeeded: params is the   *)
(* list of the distinct identifiers resolved as parameters in the order of  *)
(* their first encounter, the Symbol nodes of the tree are the symbols      *)
(* resolved, in order, and each id >= 0 indexes the identifier in params.   *)
C3_ImplicitParams ==
    (Returned /\ args.implicit /\ ~args.symbol_extractor /\ ~HasError) =>
        LET syms   == SymbolEvents
            asPars == SelectSeq(syms, LAMBDA e : e.let_id = SymbolUNDEF)
        IN  /\ result.params = FirstEncounter([i \in 1..Len(asPars) |-> asPars[i].ident])
            /\ SymbolIds(result.root) = [i \in 1..Len(syms) |-> syms[i].id]
            /\ \A i \in 1..Len(syms) :
                   syms[i].id >= 0 =>
                       /\ syms[i].id < Len(result.params)
                       /\ result.params[syms[i].id + 1] = syms[i].ident

\* a successful implicit parse with two parameters, one of them met twice,
\* and a let-bound name
C3_Witness ==
    /\ Returned
    /\ args.implicit
    /\ ~args.symbol_extractor
    /\ ~HasError
    /\ Len(result.params) >= 2
    /\ Len(SymbolEvents) > Len(result.params)
    /\ \E i \in 1..Len(SymbolEvents) : SymbolEvents[i].id < 0

-----------------------------------------------------------------------------
(* C4: let scoping.  A bare identifier parses to the negative id -(i+1) of  *)
(* the innermost let whose body is being parsed (inside the lambda body     *)
(* being parsed, if any) and that binds it, i its 0-based place among those *)
(* lets; outside the body (in the value, after the closing parenthesis) the *)
(* binding does not resolve; parse_let leaves the let-scope depth as it     *)
(* found it.                                                                *)
Innermost(scopes, name) ==
    IF \E k \in 1..Len(scopes) : scopes[k] = name
    THEN CHOOSE k \in 1..Len(scopes) :
             scopes[k] = name /\ \A l \in (k + 1)..Len(scopes) : scopes[l] # name
    ELSE 0

C4_LetScoping ==
    /\ resolver(ctx).let_names = LetScopes(stack)
    /\ \A i \in 1..Len(events) :
           /\ events[i].ev = "symbol" =>
                  IF Innermost(events[i].scopes, events[i].ident) > 0
                  THEN events[i].id = -Innermost(events[i].scopes, events[i].ident)
                  ELSE events[i].id >= 0
           /\ events[i].ev = "let" => events[i].after = events[i].before
    /\ (Returned /\ ~HasError) =>
           SymbolIds(result.root) = [i \in 1..Len(SymbolEvents) |-> SymbolEvents[i].id]

\* let(x,x,let(x,2,x))+x has been parsed: the x of the value and the x after
\* the let are parameter 0, the x of the inner body is the inner binding
C4_Witness ==
    /\ Returned
    /\ ~HasError
    /\ args.expression = <<"l", "e", "t", "(", "x", ",", "x", ",",
                           "l", "e", "t", "(", "x", ",", "2", ",", "x", ")", ")", "+", "x">>
    /\ SymbolIds(result.root) = <<0, -2, 0>>
    /\ \E i \in 1..Len(events) : events[i].ev = "let" /\ events[i].before = 1

-----------------------------------------------------------------------------
(* C5: the failure latch is single-shot.  In every state the latch is what  *)
(* the calls of fail and restore_input_mark made so far give when fail sets *)
(* an empty latch only and only a restore_input_mark at byte 0 with a mark  *)
(* whose byte is not 0 empties it; get_result reports that message.         *)
RECURSIVE LatchReplay(_)
LatchReplay(evs) ==
    IF evs = <<>> THEN <<>>
    ELSE LET prev == LatchReplay(SubSeq(evs, 1, Len(evs) - 1))
             e    == evs[Len(evs)]
         IN  IF e.ev = "fail" THEN (IF prev = <<>> THEN e.msg ELSE prev)
             ELSE IF e.ev = "restore" /\ e.curr = NUL /\ e.mark.curr # NUL THEN <<>>
             ELSE prev

\* the text between the first and the last "]...[" of an error message
Reported(message) ==
    LET seps == {i \in 1..Len(message) : message[i] = "]...["}
        first == CHOOSE i \in seps : \A j \in seps : i <= j
        last  == CHOOSE i \in seps : \A j \in seps : j <= i
    IN  SubSeq(message, first + 1, last - 1)

C5_SingleShotLatch ==
    /\ ctx.failure = LatchReplay(events)
    /\ (Returned /\ LatchReplay(events) # <<>>) =>
           /\ HasError
           /\ Reported(result.root.message) = CStr(LatchReplay(events))

\* a parse in which fail was called on a set latch and restore_input_mark
\* emptied a set latch
C5_Witness ==
    /\ Returned
    /\ \E i \in 1..Len(events) : events[i].ev = "fail" /\ events[i].latched # <<>>
    /\ \E i \in 1..Len(events) :
           /\ events[i].ev = "restore"
           /\ events[i].failure # <<>>
           /\ events[i].curr = NUL
           /\ events[i].mark.curr # NUL

-----------------------------------------------------------------------------
(* C6: implicit mode, Error root: the parameter list is empty.              *)
C6_ImplicitErrorNoParams ==
    (Returned /\ args.implicit /\ HasError) => result.params = <<>>

-----------------------------------------------------------------------------
(* C7: explicit mode: the returned params are the supplied list, whatever   *)
(* the expression, success or failure, with or without an extractor.        *)
C7_ExplicitParamsKept ==
    (Returned /\ ~args.implicit) => result.params = args.params

\* a failed explicit parse with an extractor that met a name not in the list
C7_Witness ==
    /\ Returned
    /\ ~args.implicit
    /\ args.symbol_extractor
    /\ args.params = << <<"b">>, <<"a">> >>
    /\ HasError
    /\ \E i \in 1..Len(events) :
           events[i].ev = "symbol" /\ events[i].called /\ events[i].id = SymbolUNDEF
    /\ result.params = << <<"b">>, <<"a">> >>

-----------------------------------------------------------------------------
(* C8: map(t, f(v)(v+1)) with explicit params ["t"] parses without error to *)
(* TensorMap(Symbol(0), Function(Add(Symbol(0), Number(1)), ["v"])), and a  *)
(* well-formed join to a TensorJoin root.                                   *)
C8_TensorMapJoin ==
    /\ (/\ Returned
        /\ Terminated
        /\ ~args.implicit
        /\ args.params = << <<"t">> >>
        /\ args.expression = <<"m", "a", "p", "(", "t", ",", " ", "f", "(", "v", ")",
                               "(", "v", "+", "1", ")", ")">>)
           => result.root =
                  [type |-> "TensorMap", child |-> Symbol(0),
                   lambda |-> Function(bind(CreateOperator(<<"+">>), Symbol(0), Num(1)),
                                       << <<"v">> >>)]
    /\ (/\ Returned
        /\ Terminated
        /\ args.implicit
        /\ args.expression = <<"j", "o", "i", "n", "(", "a", ",", "b", ",", "f", "(", "x",
                               ",", "y", ")", "(", "x", "+", "y", ")", ")">>)
           => result.root.type = "TensorJoin"

-----------------------------------------------------------------------------
(* C9 as stated: the C string "1 +" yields an Error root whose message      *)
(* contains "incomplete parse", with the bracketed prefix [1 +].            *)
C9_IncompleteParse ==
    (Returned /\ Terminated /\ args.expression = <<"1", " ", "+">>) =>
        /\ HasError
        /\ \E i \in 1..Len(result.root.message) :
               result.root.message[i] = "incomplete parse"
        /\ IsPrefix(<<"[", "1", " ", "+", "]...[">>, result.root.message)

(* C9 as amended: the C string "1 +" yields the Error root                  *)
(* "[1 +]...[missing value]...[]": the missing operand latches "missing     *)
(* value" before get_result could say "incomplete parse".                   *)
C9_MissingValue ==
    (Returned /\ Terminated /\ args.expression = <<"1", " ", "+">>) =>
        result.root = Error(ErrorText(<<"1", " ", "+">>, <<"missing value">>, <<>>))

C9_Witness ==
    /\ Returned
    /\ Terminated
    /\ args.expression = <<"1", " ", "+">>
    /\ HasError
    /\ ctx.pos = 3
    /\ \E i \in 1..Len(events) : events[i].ev = "fail" /\ events[i].msg = <<"missing value">>

-----------------------------------------------------------------------------
-----------------------------------------------------------------------------
(* C11: extractor result validation.  The extractor is called only at a     *)
(* byte that is not 0; a new_pos that is null, not beyond the position      *)
(* handed over, or beyond end leaves the cursor there and the symbol empty; *)
(* any other new_pos becomes the cursor, with curr the byte there, or 0 at  *)
(* end.                                                                     *)
C11_ExtractorValidation ==
    \A i \in 1..Len(events) :
        events[i].ev = "extract" =>
            /\ events[i].curr # NUL
            /\ IF \/ events[i].new_pos = NULLPTR
                  \/ events[i].new_pos <= events[i].pos
                  \/ events[i].new_pos > End
               THEN /\ events[i].pos_after = events[i].pos
                    /\ events[i].curr_after = events[i].curr
                    /\ events[i].name = <<>>
               ELSE /\ events[i].pos_after = events[i].new_pos
                    /\ events[i].curr_after =
                           IF events[i].new_pos < End
                           THEN args.expression[events[i].new_pos + 1]
                           ELSE NUL

\* one parse in which the extractor was followed into the text and, at a
\* later symbol, answered with a position beyond end
C11_Witness ==
    \E i, j \in 1..Len(events) :
        /\ i < j
        /\ events[i].ev = "extract"
        /\ events[i].new_pos > events[i].pos
        /\ events[i].new_pos < End
        /\ events[i].pos_after = events[i].new_pos
        /\ events[j].ev = "extract"
        /\ events[j].new_pos = End + 1
        /\ events[j].name = <<>>

-----------------------------------------------------------------------------
(* C12: lambda scope isolation.  An identifier met while a lambda body is   *)
(* parsed resolves to a let of that body, else to its place among the       *)
(* lambda's own parameter names, else not at all; no extractor is called    *)
(* and the resolve contexts below the lambda's are left as they are; when   *)
(* parse_lambda returns, the resolve-context stack is what it was on entry. *)
IndexIn(names, name) ==
    IF \E k \in 1..Len(names) : names[k] = name
    THEN (CHOOSE k \in 1..Len(names) :
              names[k] = name /\ \A l \in 1..(k - 1) : names[l] # name) - 1
    ELSE SymbolUNDEF

C12_LambdaIsolation ==
    /\ Len(ctx.resolve_stack) = 1 + LambdaDepth(stack)
    /\ \A i \in 1..Len(events) :
           /\ (events[i].ev = "symbol" /\ events[i].depth > 1) =>
                  /\ ~events[i].called
                  /\ events[i].outer_after = events[i].outer
                  /\ events[i].id =
                         IF Innermost(events[i].scopes, events[i].ident) > 0
                         THEN -Innermost(events[i].scopes, events[i].ident)
                         ELSE IndexIn(events[i].lambda, events[i].ident)
           /\ events[i].ev = "lambda" => events[i].after = events[i].before

\* let(x,1,map(t,f(v)(x))) with explicit params [t] and an extractor: the x
\* of the lambda body resolved to nothing, although a let binds it outside
C12_Witness ==
    \E i \in 1..Len(events) :
        /\ events[i].ev = "symbol"
        /\ events[i].depth = 2
        /\ events[i].ident = <<"x">>
        /\ events[i].lambda = << <<"v">> >>
        /\ events[i].outer[1].let_names = << <<"x">> >>
        /\ events[i].outer[1].symbol_extractor
        /\ events[i].id = SymbolUNDEF

-----------------------------------------------------------------------------
(* C13: the p_true of if(c, a, b, X): the value of X when X is a numeric    *)
(* literal, the default 0.5 when X is not numeric, and 0.5 when there is no *)
(* fourth argument.                                                         *)
C13_ProbabilityTrue ==
    \A i \in 1..Len(events) :
        events[i].ev = "if" =>
            events[i].p_true = IF events[i].fourth /\ events[i].numeric
                               THEN events[i].value
                               ELSE Decimal(FALSE, 5, -1)

-----------------------------------------------------------------------------
(* C14: parsing terminates on every input and parse_function returns a  *)
(* Function: the steps of a parse are bounded by the length of the text,    *)
(* a parse that has not returned has a step to take, and a parse never ends *)
(* other than by returning.                                                 *)
StepBound == 4 * End + 5

C14_AlwaysReturns ==
    /\ steps <= StepBound
    /\ status \in {"running", "returned"}
    /\ status = "running" => stack # <<>>

-----------------------------------------------------------------------------
(* C15 as stated: unwrap of "W( BODY )" returns true with wrapper "W", body *)
(* "BODY" and error "".                                                     *)
C15_UnwrapRoundTrip ==
    (unwrap.pc = "returned"
        /\ unwrap.input = <<"W", "(", " ", "B", "O", "D", "Y", " ", ")">>) =>
            /\ unwrap.ret
            /\ unwrap.wrapper = <<"W">>
            /\ unwrap.body = <<"B", "O", "D", "Y">>
            /\ unwrap.error = <<>>

(* C15 as amended: for an input W ( B ), W one or more letters directly     *)
(* followed by the parenthesis and the input ending with ')', unwrap        *)
(* returns true with wrapper W and body B, every byte between the           *)
(* parentheses (leading and trailing whitespace included), and leaves error *)
(* as the caller passed it.                                                 *)
C15_UnwrapBody ==
    \A k \in 1..Len(unwrap.input) :
        (/\ unwrap.pc = "returned"
         /\ Len(unwrap.input) >= k + 2
         /\ \A i \in 1..k : isalpha(unwrap.input[i])
         /\ unwrap.input[k + 1] = "("
         /\ unwrap.input[Len(unwrap.input)] = ")")
            => /\ unwrap.ret
               /\ unwrap.wrapper = SubSeq(unwrap.input, 1, k)
               /\ unwrap.body = SubSeq(unwrap.input, k + 2, Len(unwrap.input) - 1)
               /\ unwrap.error = unwrap.old

\* "W( BODY )" unwrapped to W and " BODY ", the caller's error string kept
C15_Witness ==
    /\ unwrap.pc = "returned"
    /\ unwrap.input = <<"W", "(", " ", "B", "O", "D", "Y", " ", ")">>
    /\ unwrap.ret
    /\ unwrap.wrapper = <<"W">>
    /\ unwrap.body = <<" ", "B", "O", "D", "Y", " ">>
    /\ unwrap.error = <<"o", "l", "d">>

-----------------------------------------------------------------------------
(* C16: unwrap returns true exactly for whitespace, letters, whitespace,    *)
(* '(', any body, ')', whitespace; otherwise it returns false with the      *)
(* first applicable of its three messages and leaves wrapper and body as    *)
(* they were; its assertion never fails.                                    *)
AllSpace(input, from, to) == \A i \in from..to : isspace(input[i])

HasWrapperName(input) ==
    \E a \in 0..Len(input) :
        AllSpace(input, 1, a) /\ a < Len(input) /\ isalpha(input[a + 1])

HasOpening(input) ==
    \E a, b, c \in 0..Len(input) :
        /\ a < b /\ b <= c /\ c < Len(input)
        /\ AllSpace(input, 1, a)
        /\ \A i \in (a + 1)..b : isalpha(input[i])
        /\ AllSpace(input, b + 1, c)
        /\ input[c + 1] = "("

IsWrapped(input) ==
    \E a, b, c, d \in 0..Len(input) :
        /\ a < b /\ b <= c /\ c + 1 < d
        /\ AllSpace(input, 1, a)
        /\ \A i \in (a + 1)..b : isalpha(input[i])
        /\ AllSpace(input, b + 1, c)
        /\ input[c + 1] = "("
        /\ input[d] = ")"
        /\ AllSpace(input, d + 1, Len(input))

C16_UnwrapFailures ==
    /\ unwrap.pc # "aborted"
    /\ unwrap.pc = "returned" =>
           /\ unwrap.ret <=> IsWrapped(unwrap.input)
           /\ ~unwrap.ret =>
                  /\ unwrap.wrapper = unwrap.old
                  /\ unwrap.body = unwrap.old
                  /\ unwrap.error =
                         IF ~HasWrapperName(unwrap.input)
                         THEN <<"could not extract wrapper name">>
                         ELSE IF ~HasOpening(unwrap.input)
                         THEN <<"could not match opening '('">>
                         ELSE <<"could not match closing ')'">>

\* an input ending right after '(': false, "could not match closing ')'",
\* wrapper and body still what the caller passed
C16_Witness ==
    /\ unwrap.pc = "returned"
    /\ unwrap.input = <<" ", "W", " ", "(">>
    /\ ~unwrap.ret
    /\ unwrap.error = <<"could not match closing ')'">>
    /\ unwrap.wrapper = <<"o", "l", "d">>
    /\ unwrap.body = <<"o", "l", "d">>

-----------------------------------------------------------------------------
(* C17: failed() implies eos().  In every state of the ParseContext a       *)
(* latched failure comes with current byte 0; every call of fail, first or  *)
(* repeated, leaves the byte 0, and restore_input_mark and the extractor    *)
(* leave it 0 unless they leave the latch empty.                            *)
C17_FailedImpliesEos ==
    /\ failed(ctx) => eos(ctx)
    /\ \A i \in 1..Len(events) :
           /\ events[i].ev = "fail" => events[i].curr_after = NUL
           /\ (events[i].ev = "restore" /\ events[i].failure_after # <<>>)
                  => events[i].mark.curr = NUL
           /\ (events[i].ev = "extract" /\ events[i].failure_after # <<>>)
                  => events[i].curr_after = NUL

\* a failed parse in which fail was called again on the set latch and
\* restore_input_mark ran while the latch was set and left it set
C17_Witness ==
    /\ Returned
    /\ failed(ctx)
    /\ eos(ctx)
    /\ \E i \in 1..Len(events) : events[i].ev = "fail" /\ events[i].latched # <<>>
    /\ \E i \in 1..Len(events) :
           events[i].ev = "restore" /\ events[i].failure # <<>>
               /\ events[i].failure_after # <<>>

-----------------------------------------------------------------------------
(* C18: operator-mark scoping.  The operator stack is never lower than      *)
(* operator_mark; every parse_expression returns with the operator stack    *)
(* and the mark it was entered with; while a parse_expression runs, the     *)
(* operators that were on the stack when it was entered stay there.         *)
C18_OperatorMark ==
    /\ num_operators(ctx) >= ctx.operator_mark
    /\ \A i \in 1..Len(stack) :
           stack[i].pc = "parse_expression_value" =>
               /\ IsPrefix(stack[i].entry_operators, ctx.operator_stack)
               /\ stack[i].old_mark <= Len(stack[i].entry_operators)
    /\ \A i \in 1..Len(events) :
           events[i].ev = "expression" =>
               /\ events[i].operators = events[i].entry_operators
               /\ events[i].operator_mark = events[i].old_mark

\* 2*(3+4)*5 parsed: the group returned with the * of the enclosing
\* expression still on the stack, and the tree is (2*(3+4))*5
C18_Witness ==
    /\ Returned
    /\ Terminated
    /\ args.expression = <<"2", "*", "(", "3", "+", "4", ")", "*", "5">>
    /\ \E i \in 1..Len(events) :
           /\ events[i].ev = "expression"
           /\ events[i].old_mark = 0
           /\ events[i].operators = <<CreateOperator(<<"*">>)>>
    /\ result.root =
           bind(CreateOperator(<<"*">>),
                bind(CreateOperator(<<"*">>), Num(2),
                     bind(CreateOperator(<<"+">>), Num(3), Num(4))),
                Num(5))

-----------------------------------------------------------------------------
(* C19: get_result returns a root that is no Error only if, when it is      *)
(* called, the cursor is at EOS, the expression stack holds exactly one     *)
(* node (which is the root), the operator stack is empty and no failure is  *)
(* latched; otherwise the root is an Error, whose message is "incomplete    *)
(* parse" only if no failure was latched before.                            *)
C19_ResultGate ==
    \A i \in 1..Len(events) :
        events[i].ev = "result" =>
            /\ events[i].node.type # "Error" <=>
                   /\ events[i].eos
                   /\ events[i].num_expressions = 1
                   /\ events[i].num_operators = 0
                   /\ events[i].failure = <<>>
            /\ events[i].node.type # "Error" =>
                   (Returned => result.root = events[i].node)
            /\ (events[i].node.type = "Error"
                    /\ Reported(events[i].node.message) = <<"incomplete parse">>)
                   => events[i].failure = <<>>

\* get_result called before the end of the text with no failure latched:
\* the root is the Error "incomplete parse"
C19_Witness ==
    /\ Returned
    /\ HasError
    /\ \E i \in 1..Len(events) :
           /\ events[i].ev = "result"
           /\ ~events[i].eos
           /\ events[i].num_expressions = 1
           /\ events[i].failure = <<>>
           /\ Reported(events[i].node.message) = <<"incomplete parse">>

-----------------------------------------------------------------------------
(* C20: the name list that parse_lambda hands to the ExplicitParams         *)
(* constructor never holds a name twice (the empty name included), so the   *)
(* assertion of the constructor holds and no expression aborts the parser.  *)
C20_NoDuplicateLambdaParams ==
    /\ status # "aborted"
    /\ \A i \in 1..Len(events) :
           events[i].ev = "ExplicitParams" => ExplicitParamsAssert(events[i].params_in)

-----------------------------------------------------------------------------
(* C21: in every state begin <= pos <= end; at pos = end the current byte   *)
(* is 0; a non-zero current byte is the input byte at pos, with pos < end,  *)
(* so no byte at or beyond end is taken as input.                           *)
C21_CursorBounds ==
    /\ 0 <= ctx.pos /\ ctx.pos <= End
    /\ (ctx.pos = End => ctx.curr = NUL)
    /\ (ctx.curr # NUL => /\ ctx.pos < End
                          /\ ctx.curr = args.expression[ctx.pos + 1])

-----------------------------------------------------------------------------
(* C22: restore_input_mark never empties a latch that was set when its mark *)
(* was taken; the only failure it erases is the "unknown function" failure  *)
(* that try_parse_call latched for the same identifier between              *)
(* get_input_mark and extract_symbol; every other latched failure is the    *)
(* one get_result sees.                                                     *)

\* the get_input_mark whose mark the restore_input_mark at j brings back
MarkOf(j) ==
    CHOOSE k \in 1..(j - 1) :
        /\ events[k].ev = "mark"
        /\ \A l \in (k + 1)..(j - 1) : events[l].ev # "mark"

\* the identifier that parse_symbol is resolving at the restore at j
IdentOf(j) ==
    LET l == CHOOSE l \in (j + 1)..Len(events) :
                 /\ events[l].ev = "symbol"
                 /\ \A n \in (j + 1)..(l - 1) : events[n].ev # "symbol"
    IN  events[l].ident

\* the restore_input_mark at j emptied a set latch
Erases(j) ==
    /\ events[j].ev = "restore"
    /\ events[j].failure # <<>>
    /\ events[j].failure_after = <<>>

C22_RestoreKeepsEarlierFailure ==
    /\ \A j \in 1..Len(events) :
           events[j].ev = "restore" =>
               /\ events[MarkOf(j)].mark = events[j].mark
               /\ events[MarkOf(j)].failure # <<>> =>
                      events[j].failure_after = events[MarkOf(j)].failure
               /\ Erases(j) =>
                      /\ events[MarkOf(j)].failure = <<>>
                      /\ events[j].failure =
                             <<"unknown function: '">> \o CStr(IdentOf(j)) \o <<"'">>
                      /\ \E i \in (MarkOf(j) + 1)..(j - 1) :
                             /\ events[i].ev = "fail"
                             /\ events[i].latched = <<>>
                             /\ events[i].msg = events[j].failure
    /\ \A i \in 1..Len(events) :
           (/\ events[i].ev = "fail"
            /\ events[i].latched = <<>>
            /\ ~\E j \in (i + 1)..Len(events) : Erases(j) /\ MarkOf(j) < i)
               => \A r \in (i + 1)..Len(events) :
                      events[r].ev = "result" =>
                          /\ events[r].node.type = "Error"
                          /\ Reported(events[r].node.message) = CStr(events[i].msg)

\* a failure latched before the mark was taken went through a
\* restore_input_mark and reached get_result, and an "unknown function"
\* failure was erased by another
C22_Witness ==
    /\ Returned
    /\ \E j \in 1..Len(events) :
           /\ events[j].ev = "restore"
           /\ events[MarkOf(j)].failure # <<>>
           /\ \E r \in (j + 1)..Len(events) :
                  /\ events[r].ev = "result"
                  /\ events[r].failure = events[MarkOf(j)].failure
    /\ \E j \in 1..Len(events) : Erases(j)

-----------------------------------------------------------------------------
(* C23: a parse that returns a Function without error has consumed the     *)
(* whole input: the cursor is at end, also for an input that holds a zero   *)
(* byte before its end.                                                     *)
C23_SuccessConsumesAll ==
    (Returned /\ ~HasError) => ctx.pos = End

-----------------------------------------------------------------------------
(* C24: whatever the interleaving of setState on one thread with            *)
(* getListOfHosts and reads of the returned set on another, each read finds *)
(* a host set equal to the complete result of some setState call or the     *)
(* initial empty set, never a set that is being cleared or refilled.        *)
C24_PeekerSeesCompleteSets ==
    mock.read => mock.observed \in mock.results

====
